---------------------------- MODULE Spec2Model ----------------------------
(***************************************************************************)
(* Verification model of the gemini-video-app front end:                   *)
(*   - ContentFactory.handleUpload (upload, simulated stage progress,      *)
(*     response handling, clip ranking),                                   *)
(*   - SubtitleEditor (caption edits and Save),                            *)
(*   - ReelsView (vertical-video render requests),                         *)
(*   - the six-stage analysis pipeline of the backend, which is not part   *)
(*     of the source tree and is modelled from the specification.          *)
(* Numbers are integers: viral scores are in hundredths (0.87 is 87),      *)
(* times and caption offsets are in tenths of a second (1.5 s is 15).      *)
(***************************************************************************)
EXTENDS Integers, Sequences, FiniteSets, TLC

VARIABLES
    \* ---- ContentFactory (src/src/ContentFactory.tsx)
    isAnalyzing,      \* useState<boolean>(false)
    currentStage,     \* useState<number>(0)
    clips,            \* useState<PodcastClip[]>([])
    pc,               \* position of handleUpload: "idle", "fetching", "parsing"
    timers,           \* number of live setInterval stage timers
    endpoint,         \* endpoint of the request in flight, "" when none
    data,             \* the last parsed response body (PodcastAnalysisResult)
    outcome,          \* how the last analysis ended
    alert,            \* the last alert() shown to the user, "" when none
    requests,         \* invocations of handleUpload that have not reached finally
    \* ---- backend pipeline serving the request (specification 4.1)
    pipelineStage,    \* 0..5 the stage being executed, 6 = Done
    pipelineStatus,   \* "idle", "running", "done", "failed"
    attempts,         \* failed attempts of the current oracle call
    produced,         \* clips produced so far by the pipeline
    \* ---- SubtitleEditor (src/src/SubtitleEditor.tsx)
    editorClip,       \* the clip prop
    captions,         \* useState<Caption[]>(clip.captions || [])
    activeCaptionIndex, \* useState<number | null>(null); 0 stands for null
    editorOpen,       \* the editor is mounted (onClose not yet called)
    onSaveArgs,       \* the clips passed to onSave, in call order
    \* ---- ReelsView (src/unnamed/part_002, lines 256-483)
    reelClip,         \* version of the clip prop; each new clip object is a new version
    reelMounted,      \* the viewer is mounted
    videoUrl,         \* useState<string | null>(null); 0 stands for null, k > 0 is
                      \* the object URL of the video rendered from clip version k
    loading,          \* useState(true)
    renders,          \* renders[k]: the render request for clip version k
    capturedUrl,      \* videoUrl as captured by the pending effect cleanup
    revoked,          \* object URLs revoked so far
    reelCaptions,     \* clip.captions of the clip prop
    currentTime,      \* useState(0): playback time within the clip
    \* ---- Chunking and Scoring of the backend pipeline (specification 4.1)
    utterances,       \* the canonical utterance sequence of the transcript
    chunks,           \* the chunks leaving the Chunking stage
    judgments,        \* the oracle's judgment per chunk, as received
    analysis,         \* the ScoredChunks leaving the Scoring stage
    \* ---- per-clip render pipeline of the backend (specification 4.2-4.5)
    sourceDims,       \* width and height of the source video
    trajectory,       \* the raw Trajectory of the Subject Tracker
    smoothed,         \* the crop-center path of the Trajectory Smoother
    renderPlan,       \* the RenderPlan of the Composition Planner
    renderStage,      \* "idle", "tracked", "smoothed", "planned", "rendered", "failed"
    \* ---- ClipDetailView (src/unnamed/part_002, lines 1-254)
    selectedClip,     \* useState<PodcastClip | null>(null) of ContentFactory, the
                      \* clip prop of the view; NoClip stands for null
    downloaded,       \* the file last saved by the Export button, NoFile when none
    \* ---- Dashboard (src/src/Dashboard.tsx); times in seconds
    url,              \* useState('')
    meta,             \* useState<VideoMeta | null>(null): meta.duration, 0 stands for null
    loadingMeta,      \* useState(false)
    range,            \* useState<[number, number]>([0, 600])
    uploadMode,       \* useState<'youtube' | 'file'>('youtube')
    selectedFile,     \* useState<File | null>(null): a file has been chosen
    metaRequests      \* get-video-meta requests in flight

cfVars == <<isAnalyzing, currentStage, clips, pc, timers, endpoint, data, outcome, alert,
            requests>>
plVars == <<pipelineStage, pipelineStatus, attempts, produced>>
seVars == <<editorClip, captions, activeCaptionIndex, editorOpen, onSaveArgs>>
rvVars == <<reelClip, reelMounted, videoUrl, loading, renders, capturedUrl, revoked,
            reelCaptions, currentTime>>
anVars == <<utterances, chunks, judgments, analysis>>
rnVars == <<sourceDims, trajectory, smoothed, renderPlan, renderStage>>
exVars == <<selectedClip, downloaded>>
dbVars == <<url, meta, loadingMeta, range, uploadMode, selectedFile, metaRequests>>
vars == <<cfVars, plVars, seVars, rvVars, anVars, rnVars, exVars, dbVars>>

-----------------------------------------------------------------------------
\* Bounds of the model.
MaxClips == 3        \* clips in one response
MaxTimers == 2       \* live stage timers (leaked ones included)

\* Program constants.
LastStageIndex == 5  \* Math.min(prev + 1, 5)
DoneStage == 6       \* setCurrentStage(6)
MaxAttempts == 3     \* configured maximum attempts of one oracle call

stages == <<"Semantic Chunking", "Viral Analysis", "Clip Refinement",
            "Platform Optimization", "Visual Treatment", "Assembly Specs">>

\* A minimum that lets the first argument through.
MinUncapped(a, b) == a

Min(a, b) == IF a < b THEN a ELSE b

-----------------------------------------------------------------------------
\* PodcastClip, reduced to the fields the front end reads or copies.
Scores == {75, 90}

Clip(id, score) ==
    [clip_id |-> id, chunk_id |-> id, start |-> 1000 * id, end |-> 1000 * id + 600,
     refined_start |-> 1000 * id + 20, refined_end |-> 1000 * id + 320,
     refined_duration |-> 300, viral_score |-> score, captions |-> <<>>,
     source_file |-> ""]

\* The orders in which n clips can arrive: results are surfaced in any order.
Orders(n) == {o \in [1..n -> 1..n] : \A i, j \in 1..n : i # j => o[i] # o[j]}

\* The clip lists a response can carry: clips 1..n, each with some score, in
\* some order.
ClipSeqs ==
    UNION {{[i \in 1..n |-> Clip(o[i], f[o[i]])] : f \in [1..n -> Scores], o \in Orders(n)} :
           n \in 0..MaxClips}

\* --- handleUpload, lines 31-35: extension check
ToLowerCase(s) ==
    CASE s = "MP4" -> "mp4"
      [] s = "Txt" -> "txt"
      [] s = "MKV" -> "mkv"
      [] OTHER -> s

\* A file name as the list of its dot-separated parts (file.name.split('.')).
FileNames == {<<"talk", "MP4">>, <<"notes", "Txt">>, <<"ep1", "final", "srt">>,
              <<"cue", "vtt">>, <<"cam", "mov">>, <<"old", "avi">>, <<"raw", "MKV">>,
              <<"slides", "pdf">>, <<"trailing", "">>, <<"mp4">>, <<"README">>}

Ext(name) == ToLowerCase(name[Len(name)])

AcceptedExts == {"txt", "srt", "vtt", "mp4", "mov", "avi", "mkv"}
VideoExts == {"mp4", "mov", "avi", "mkv"}

Accepted(name) == Ext(name) # "" /\ Ext(name) \in AcceptedExts

Endpoint(name) ==
    IF Ext(name) \in VideoExts THEN "/upload-video" ELSE "/analyze-podcast"

\* --- handleUpload, lines 82-87: ranking of the returned clips
CompareFnAscending(a, b) == a.viral_score - b.viral_score

CompareFn(a, b) == b.viral_score - a.viral_score

\* Array.prototype.sort is a stable sort: an element moves left only past
\* elements the comparator puts strictly after it.
RECURSIVE InsertSorted(_, _)
InsertSorted(s, x) ==
    IF s = <<>> THEN <<x>>
    ELSE IF CompareFn(s[Len(s)], x) > 0
         THEN Append(InsertSorted(SubSeq(s, 1, Len(s) - 1), x), s[Len(s)])
         ELSE Append(s, x)

RECURSIVE SortClips(_)
SortClips(s) ==
    IF s = <<>> THEN <<>>
    ELSE InsertSorted(SortClips(SubSeq(s, 1, Len(s) - 1)), s[Len(s)])

WithSource(clip, file) == [clip EXCEPT !.source_file = file]

SortedClips(d) ==
    LET list == IF d.has_selected_clips THEN d.selected_clips ELSE <<>>
        sorted == SortClips(list)
    IN  [i \in 1..Len(sorted) |-> WithSource(sorted[i], d.source_file)]

NoData == [has_selected_clips |-> FALSE, selected_clips |-> <<>>,
           error |-> "", source_file |-> ""]

-----------------------------------------------------------------------------
\* ContentFactory: handleUpload, lines 26-97.

CFInit ==
    /\ isAnalyzing = FALSE
    /\ currentStage = 0
    /\ clips = <<>>
    /\ pc = "idle"
    /\ timers = 0
    /\ endpoint = ""
    /\ data = NoData
    /\ outcome = "none"
    /\ alert = ""
    /\ requests = 0

PipelineIdle ==
    /\ pipelineStage = 0
    /\ pipelineStatus = "idle"
    /\ attempts = 0
    /\ produced = <<>>

\* lines 27-35: no analysis without a file or for a file whose extension is
\* not accepted.
\* The file input is disabled while isAnalyzing (line 179).
RejectFile(name) ==
    /\ ~Accepted(name)
    /\ alert' = "Please upload a transcript or video file"

\* The file input takes a file whether or not an analysis is running.
InputAlwaysEnabled == TRUE

\* line 179: disabled={isAnalyzing}
InputEnabled == ~isAnalyzing

HandleUploadRejected ==
    /\ InputEnabled
    /\ \/ UNCHANGED alert      \* line 28: no file chosen
       \/ \E name \in FileNames : RejectFile(name)
    /\ UNCHANGED <<isAnalyzing, currentStage, clips, pc, timers, endpoint, data, outcome,
                   requests>>
    /\ UNCHANGED <<plVars, seVars, rvVars, anVars, rnVars, exVars, dbVars>>

\* lines 37-64: state reset, stage timer started, request sent (up to the
\* await of fetch).  The backend pipeline starts on the request.
SendFile(name) ==
    /\ Accepted(name)
    /\ endpoint' = Endpoint(name)

HandleUpload ==
    /\ InputEnabled
    /\ timers < MaxTimers
    /\ \E name \in FileNames : SendFile(name)
    /\ isAnalyzing' = TRUE
    /\ currentStage' = 0
    /\ clips' = <<>>
    /\ timers' = timers + 1
    /\ pc' = "fetching"
    /\ data' = NoData
    /\ outcome' = "none"
    /\ alert' = ""
    /\ requests' = requests + 1
    /\ pipelineStage' = 0
    /\ pipelineStatus' = "running"
    /\ attempts' = 0
    /\ produced' = <<>>
    /\ UNCHANGED <<seVars, rvVars, anVars, rnVars, exVars, dbVars>>

\* lines 51-53: one tick of a live stage timer.
StageInterval ==
    /\ timers > 0
    /\ currentStage' = Min(currentStage + 1, LastStageIndex)
    /\ UNCHANGED <<isAnalyzing, clips, pc, timers, endpoint, data, outcome, alert, requests>>
    /\ UNCHANGED <<plVars, seVars, rvVars, anVars, rnVars, exVars, dbVars>>

\* lines 93-96: the finally block.
Finally ==
    /\ isAnalyzing' = FALSE
    /\ currentStage' = 0
    /\ pc' = "idle"
    /\ endpoint' = ""
    /\ requests' = requests - 1

\* lines 61-67, 73: fetch resolved with response.ok; the handler now awaits
\* response.json().
FetchResolvesOk ==
    /\ pc = "fetching"
    /\ pipelineStatus \in {"done", "failed"}
    /\ timers' = timers - 1
    /\ currentStage' = DoneStage
    /\ pc' = "parsing"
    /\ UNCHANGED <<isAnalyzing, clips, endpoint, data, outcome, alert, requests>>
    /\ UNCHANGED <<plVars, seVars, rvVars, anVars, rnVars, exVars, dbVars>>

\* lines 66-71, 90-96: fetch resolved with an error status.
FetchResolvesNotOk ==
    /\ pc = "fetching"
    /\ pipelineStatus = "failed"
    /\ timers' = timers - 1
    /\ outcome' = "http_error"
    /\ alert' = "Failed to analyze content: Analysis failed"
    /\ Finally
    /\ UNCHANGED <<clips, data>>
    /\ UNCHANGED <<plVars, seVars, rvVars, anVars, rnVars, exVars, dbVars>>

\* lines 61, 90-96: fetch rejected (network failure); control jumps to the
\* catch block, past clearInterval.
FetchRejects ==
    /\ pc = "fetching"
    /\ outcome' = "network_error"
    /\ alert' = "Failed to analyze content: Failed to fetch"
    /\ Finally
    /\ UNCHANGED <<clips, timers, data>>
    /\ UNCHANGED <<plVars, seVars, rvVars, anVars, rnVars, exVars, dbVars>>

\* The bodies the backend can send for the state its pipeline ended in.
ResponseBodies ==
    {[has_selected_clips |-> h, selected_clips |-> produced,
      error |-> IF pipelineStatus = "failed" THEN "RetryError" ELSE "",
      source_file |-> IF endpoint = "/upload-video" THEN "uploads/video.mp4" ELSE ""] :
        h \in IF produced = <<>> THEN BOOLEAN ELSE {TRUE}}

\* lines 73-96: the body parsed; error thrown or clips ranked and stored.
JsonResolves ==
    /\ pc = "parsing"
    /\ \E d \in ResponseBodies :
          /\ data' = d
          /\ IF d.error # ""
             THEN /\ outcome' = "error"
                  /\ alert' = "Failed to analyze content: error"
                  /\ UNCHANGED clips
             ELSE /\ outcome' = "success"
                  /\ clips' = SortedClips(d)
                  /\ UNCHANGED alert
    /\ Finally
    /\ UNCHANGED timers
    /\ UNCHANGED <<plVars, seVars, rvVars, anVars, rnVars, exVars, dbVars>>

\* line 73, 90-96: response.json() rejected (the body is not JSON).
JsonRejects ==
    /\ pc = "parsing"
    /\ outcome' = "parse_error"
    /\ alert' = "Failed to analyze content: Unexpected token"
    /\ Finally
    /\ UNCHANGED <<clips, timers, data>>
    /\ UNCHANGED <<plVars, seVars, rvVars, anVars, rnVars, exVars, dbVars>>

-----------------------------------------------------------------------------
\* The backend pipeline (specification 4.1, 5 and 7): six stages in order,
\* oracle calls retried a bounded number of times.

OracleStages == {1, 2, 3, 4}   \* Scoring, Refining, PlatformOptimizing, VisualPlanning
RefiningStage == 2

\* One attempt of the current oracle call fails; the last allowed failure
\* fails the stage and the pipeline.
OracleAttemptFails ==
    /\ pipelineStatus = "running"
    /\ pipelineStage \in OracleStages
    /\ attempts < MaxAttempts
    /\ attempts' = attempts + 1
    /\ pipelineStatus' = IF attempts + 1 = MaxAttempts THEN "failed" ELSE "running"
    /\ UNCHANGED <<pipelineStage, produced>>
    /\ UNCHANGED <<cfVars, seVars, rvVars, anVars, rnVars, exVars, dbVars>>

\* The stage completes; Refining produces the selected clips.
StageCompletes ==
    /\ pipelineStatus = "running"
    /\ pipelineStage < DoneStage
    /\ pipelineStage' = pipelineStage + 1
    /\ attempts' = 0
    /\ pipelineStatus' = IF pipelineStage + 1 = DoneStage THEN "done" ELSE "running"
    /\ IF pipelineStage = RefiningStage
       THEN produced' \in ClipSeqs
       ELSE UNCHANGED produced
    /\ UNCHANGED <<cfVars, seVars, rvVars, anVars, rnVars, exVars, dbVars>>

\* Empty input or a fatal transport error: Failed is reachable from any stage.
PipelineFails ==
    /\ pipelineStatus = "running"
    /\ pipelineStatus' = "failed"
    /\ UNCHANGED <<pipelineStage, attempts, produced>>
    /\ UNCHANGED <<cfVars, seVars, rvVars, anVars, rnVars, exVars, dbVars>>

-----------------------------------------------------------------------------
\* SubtitleEditor: src/src/SubtitleEditor.tsx.

MaxCaptions == 2     \* captions of the edited clip

Caption(text, s, e) ==
    [text |-> text, start_offset |-> s, end_offset |-> e, emphasis |-> <<>>]

\* Captions as the analysis delivers them: ordered, non-overlapping, inside
\* the clip.
CaptionList(n) == [i \in 1..n |-> Caption("orig", 10 * (i - 1), 10 * i)]

EditorClips == {[Clip(1, 90) EXCEPT !.captions = CaptionList(n)] : n \in 0..MaxCaptions}

\* Values typed into the inputs, as lists of characters.
TextInputs == {"fixed"}
TimeInputs == {<<>>, <<"a", "b", "c">>, <<"1", ".", "5">>, <<"-", "1">>,
               <<"3", "1">>, <<" ", "3", "1", "x">>}

DigitChars == {"0", "1", "2", "3", "4", "5", "6", "7", "8", "9"}

DigitVal(c) ==
    CASE c = "0" -> 0 [] c = "1" -> 1 [] c = "2" -> 2 [] c = "3" -> 3 [] c = "4" -> 4
      [] c = "5" -> 5 [] c = "6" -> 6 [] c = "7" -> 7 [] c = "8" -> 8 [] c = "9" -> 9

RECURSIVE SkipSpaces(_, _)
SkipSpaces(s, i) == IF i <= Len(s) /\ s[i] = " " THEN SkipSpaces(s, i + 1) ELSE i

RECURSIVE DigitsEnd(_, _)
DigitsEnd(s, i) == IF i <= Len(s) /\ s[i] \in DigitChars THEN DigitsEnd(s, i + 1) ELSE i

RECURSIVE DigitsValue(_, _, _)
DigitsValue(s, from, to) ==
    IF from >= to THEN 0
    ELSE 10 * DigitsValue(s, from, to - 1) + DigitVal(s[to - 1])

NaN == [nan |-> TRUE, val |-> 0]

\* parseFloat on decimal literals with at most one fractional digit: leading
\* blanks skipped, optional sign, longest numeric prefix, NaN when there is
\* none.  The value is in tenths.
ParseFloat(s) ==
    LET b == SkipSpaces(s, 1)
        signed == b <= Len(s) /\ s[b] \in {"+", "-"}
        sign == IF signed /\ s[b] = "-" THEN -1 ELSE 1
        i0 == IF signed THEN b + 1 ELSE b
        i1 == DigitsEnd(s, i0)
        hasDot == i1 <= Len(s) /\ s[i1] = "."
        f1 == IF hasDot THEN DigitsEnd(s, i1 + 1) ELSE i1
        fracDigits == IF hasDot THEN f1 - (i1 + 1) ELSE 0
        tenths == IF fracDigits > 0 THEN DigitVal(s[i1 + 1]) ELSE 0
    IN  IF i1 = i0 /\ fracDigits = 0
        THEN NaN
        ELSE [nan |-> FALSE, val |-> sign * (10 * DigitsValue(s, i0, i1) + tenths)]

EditorUnused ==
    /\ editorClip = Clip(1, 90)
    /\ captions = <<>>
    /\ activeCaptionIndex = 0
    /\ editorOpen = FALSE
    /\ onSaveArgs = <<>>

\* line 13-14: the editor mounted on a clip.
EditorInit ==
    /\ editorClip \in EditorClips
    /\ captions = editorClip.captions
    /\ activeCaptionIndex = 0
    /\ editorOpen = TRUE
    /\ onSaveArgs = <<>>

\* line 86: a caption row clicked.
SetActiveCaptionIndex ==
    /\ editorOpen
    /\ \E idx \in DOMAIN captions : activeCaptionIndex' = idx
    /\ UNCHANGED <<editorClip, captions, editorOpen, onSaveArgs>>
    /\ UNCHANGED <<cfVars, plVars, rvVars, anVars, rnVars, exVars, dbVars>>

\* lines 19-23
TextChanged(caps, index, newText) == [caps EXCEPT ![index].text = newText]

HandleTextChange ==
    /\ editorOpen
    /\ \E index \in DOMAIN captions, newText \in TextInputs :
          captions' = TextChanged(captions, index, newText)
    /\ UNCHANGED <<editorClip, activeCaptionIndex, editorOpen, onSaveArgs>>
    /\ UNCHANGED <<cfVars, plVars, rvVars, anVars, rnVars, exVars, dbVars>>

\* The typed value is stored without the isNaN test.
TimeChangedUnchecked(caps, index, field, value) ==
    LET numValue == ParseFloat(value)
    IN  IF field = "start_offset"
        THEN [caps EXCEPT ![index].start_offset = numValue.val]
        ELSE [caps EXCEPT ![index].end_offset = numValue.val]

\* lines 25-32
TimeChanged(caps, index, field, value) ==
    LET numValue == ParseFloat(value)
    IN  IF numValue.nan THEN caps
        ELSE IF field = "start_offset"
             THEN [caps EXCEPT ![index].start_offset = numValue.val]
             ELSE [caps EXCEPT ![index].end_offset = numValue.val]

HandleTimeChange ==
    /\ editorOpen
    /\ \E index \in DOMAIN captions, field \in {"start_offset", "end_offset"},
          value \in TimeInputs :
          captions' = TimeChanged(captions, index, field, value)
    /\ UNCHANGED <<editorClip, activeCaptionIndex, editorOpen, onSaveArgs>>
    /\ UNCHANGED <<cfVars, plVars, rvVars, anVars, rnVars, exVars, dbVars>>

\* lines 35-38: the clip handed to onSave.
UpdatedClipDroppingTiming(clip, caps) ==
    [clip EXCEPT !.captions = caps, !.refined_end = clip.end,
                 !.refined_duration = clip.end - clip.refined_start]

UpdatedClip(clip, caps) == [clip EXCEPT !.captions = caps]

\* lines 34-40
HandleSave ==
    /\ editorOpen
    /\ onSaveArgs' = Append(onSaveArgs, UpdatedClip(editorClip, captions))
    /\ editorOpen' = FALSE
    /\ UNCHANGED <<editorClip, captions, activeCaptionIndex>>
    /\ UNCHANGED <<cfVars, plVars, rvVars, anVars, rnVars, exVars, dbVars>>

\* Closing hands the edited clip to onSave first.
OnCloseSaving ==
    /\ editorOpen
    /\ onSaveArgs' = Append(onSaveArgs, UpdatedClip(editorClip, captions))
    /\ editorOpen' = FALSE
    /\ UNCHANGED <<editorClip, captions, activeCaptionIndex>>
    /\ UNCHANGED <<cfVars, plVars, rvVars, anVars, rnVars, exVars, dbVars>>

\* lines 52, 137: the close button and Cancel call onClose.
OnClose ==
    /\ editorOpen
    /\ editorOpen' = FALSE
    /\ UNCHANGED <<editorClip, captions, activeCaptionIndex, onSaveArgs>>
    /\ UNCHANGED <<cfVars, plVars, rvVars, anVars, rnVars, exVars, dbVars>>

-----------------------------------------------------------------------------
\* ReelsView: src/unnamed/part_002, lines 266-328.

MaxClipVersions == 3   \* clip objects the viewer is given while mounted

ReelsUnused ==
    /\ reelClip = 0
    /\ reelMounted = FALSE
    /\ videoUrl = 0
    /\ loading = TRUE
    /\ renders = <<>>
    /\ capturedUrl = 0
    /\ revoked = {}
    /\ reelCaptions = <<>>
    /\ currentTime = 0

\* The caption lists a clip can carry: ordered and non-overlapping, each caption
\* starting where the previous one ends or after a pause.
ReelCaptionLists ==
    {CaptionList(n) : n \in 0..MaxCaptions}
        \cup {<<Caption("orig", 0, 10), Caption("orig", 15, 25)>>}

\* The times the video element can report.
PlaybackTimes == {0, 5, 10, 12, 20, 30}

\* lines 322-326: the index of the first caption whose interval contains the
\* time, 0 when find returns undefined.
GetActiveCaption(caps, time) ==
    LET hits == {i \in DOMAIN caps :
                    time >= caps[i].start_offset /\ time <= caps[i].end_offset}
    IN  IF hits = {} THEN 0 ELSE CHOOSE i \in hits : \A j \in hits : i <= j

\* line 328
activeCaption == GetActiveCaption(reelCaptions, currentTime)

\* lines 267-304: first render and first run of the effect: fetchVerticalVideo
\* is called and is now awaiting fetch; the cleanup closes over videoUrl = null.
ReelsInit ==
    /\ reelClip = 1
    /\ reelMounted = TRUE
    /\ videoUrl = 0
    /\ loading = TRUE
    /\ renders = <<"pending">>
    /\ capturedUrl = 0
    /\ revoked = {}
    /\ reelCaptions \in ReelCaptionLists
    /\ currentTime = 0

\* lines 301-303: the cleanup revokes the URL it closed over, if any.
Cleanup == revoked' = IF capturedUrl # 0 THEN revoked \cup {capturedUrl} ELSE revoked

\* lines 275-304: the clip prop changed: the previous effect's cleanup runs,
\* then the effect starts a new request (setLoading(true), fetch) and its
\* cleanup closes over the videoUrl of this render.
ClipChanges ==
    /\ reelMounted
    /\ reelClip < MaxClipVersions
    /\ Cleanup
    /\ reelClip' = reelClip + 1
    /\ renders' = Append(renders, "pending")
    /\ loading' = TRUE
    /\ capturedUrl' = videoUrl
    /\ reelCaptions' \in ReelCaptionLists
    /\ UNCHANGED <<reelMounted, videoUrl, currentTime>>
    /\ UNCHANGED <<cfVars, plVars, seVars, anVars, rnVars, exVars, dbVars>>

\* lines 283-297: the request for clip version k resolved with a video:
\* createObjectURL, setVideoUrl, setLoading(false).  State setters of an
\* unmounted component do nothing.
RenderSucceeds ==
    /\ \E k \in DOMAIN renders :
          /\ renders[k] = "pending"
          /\ renders' = [renders EXCEPT ![k] = "ok"]
          /\ videoUrl' = IF reelMounted THEN k ELSE videoUrl
    /\ loading' = IF reelMounted THEN FALSE ELSE loading
    /\ UNCHANGED <<reelClip, reelMounted, capturedUrl, revoked, reelCaptions, currentTime>>
    /\ UNCHANGED <<cfVars, plVars, seVars, anVars, rnVars, exVars, dbVars>>

\* lines 283-297: the request failed (rejected fetch or !response.ok).
RenderFails ==
    /\ \E k \in DOMAIN renders :
          /\ renders[k] = "pending"
          /\ renders' = [renders EXCEPT ![k] = "failed"]
    /\ loading' = IF reelMounted THEN FALSE ELSE loading
    /\ UNCHANGED <<reelClip, reelMounted, videoUrl, capturedUrl, revoked, reelCaptions,
                   currentTime>>
    /\ UNCHANGED <<cfVars, plVars, seVars, anVars, rnVars, exVars, dbVars>>

\* lines 301-303, 334: the viewer is closed and unmounted; the cleanup runs.
ReelsUnmount ==
    /\ reelMounted
    /\ Cleanup
    /\ reelMounted' = FALSE
    /\ UNCHANGED <<reelClip, videoUrl, loading, renders, capturedUrl, reelCaptions, currentTime>>
    /\ UNCHANGED <<cfVars, plVars, seVars, anVars, rnVars, exVars, dbVars>>

\* lines 307-312, 352-363: the video element, rendered once there is a video
\* URL, reports its playback time.
HandleTimeUpdate ==
    /\ reelMounted
    /\ videoUrl # 0
    /\ currentTime' \in PlaybackTimes
    /\ UNCHANGED <<reelClip, reelMounted, videoUrl, loading, renders, capturedUrl, revoked,
                   reelCaptions>>
    /\ UNCHANGED <<cfVars, plVars, seVars, anVars, rnVars, exVars, dbVars>>

-----------------------------------------------------------------------------
\* Chunking and Scoring (specification 3, 4.1): the transcript is cut into
\* chunks, the oracle judges every chunk.

MaxUtterances == 4     \* utterances of a transcript

MinChunkDuration == 300   \* 30 s
MaxChunkDuration == 900   \* 90 s

UtteranceDurations == {100, 400}

\* Transcripts: utterances follow one another without gaps; boundary_after
\* says that a sentence or speaker-turn boundary follows the utterance, as the
\* end of the transcript always does.
RECURSIVE StartOf(_, _)
StartOf(durs, i) == IF i = 1 THEN 0 ELSE StartOf(durs, i - 1) + durs[i - 1]

Transcripts ==
    UNION {{[i \in 1..n |-> [start_time |-> StartOf(d, i),
                             end_time |-> StartOf(d, i) + d[i],
                             boundary_after |-> (i = n \/ b[i])]] :
              d \in [1..n -> UtteranceDurations], b \in [1..(n - 1) -> BOOLEAN]} :
           n \in 0..MaxUtterances}

Chunk(us, id, first, last) ==
    [chunk_id |-> id, start_time |-> us[first].start_time, end_time |-> us[last].end_time,
     duration |-> us[last].end_time - us[first].start_time]

\* The utterance a chunk starts with, the previous chunk ending with utterance i.
NextChunkStartShared(i) == i

NextChunkStart(i) == i + 1

\* Greedy accumulation: the chunk [first..i] is closed when its duration has
\* entered the band and a boundary is available, when the next utterance would
\* take it beyond the band, or at the end of the sequence.
\* A chunk of duration d may end at a boundary without regard to its length.
ReadyAtAnyBoundary(d, boundary) == boundary

\* A chunk of duration d may end here: it has entered the band and a
\* sentence or speaker-turn boundary is available.
ReadyToClose(d, boundary) == d >= MinChunkDuration /\ boundary

RECURSIVE ChunkFrom(_, _, _, _)
ChunkFrom(us, first, i, acc) ==
    IF i > Len(us) THEN acc
    ELSE LET d == us[i].end_time - us[first].start_time
             closeHere ==
                 \/ i = Len(us)
                 \/ ReadyToClose(d, us[i].boundary_after)
                 \/ us[i + 1].end_time - us[first].start_time > MaxChunkDuration
         IN  IF closeHere
             THEN ChunkFrom(us, NextChunkStart(i), i + 1,
                            Append(acc, Chunk(us, Len(acc) + 1, first, i)))
             ELSE ChunkFrom(us, first, i + 1, acc)

Chunking(us) == ChunkFrom(us, 1, 1, <<>>)

\* What the oracle can say about one chunk: an answer with a score (one of
\* them outside [0,1], which violates the schema) or nothing at all.
Judgments ==
    {[kind |-> "ok", viral_score |-> 90, context_dependency |-> FALSE],
     [kind |-> "ok", viral_score |-> 45, context_dependency |-> TRUE],
     [kind |-> "ok", viral_score |-> 150, context_dependency |-> FALSE],
     [kind |-> "missing", viral_score |-> 0, context_dependency |-> FALSE]}

\* A schema check that takes every answer that arrived.
AnyAnswer(j) == j.kind = "ok"

\* The adapter's schema check: an answer arrived and its score is in [0,1].
ValidJudgment(j) == j.kind = "ok" /\ j.viral_score \in 0..100

ScoredChunk(chunk, j) ==
    IF ValidJudgment(j)
    THEN [chunk_id |-> chunk.chunk_id, viral_score |-> j.viral_score,
          context_dependency |-> j.context_dependency]
    ELSE [chunk_id |-> chunk.chunk_id, viral_score |-> 0, context_dependency |-> TRUE]

\* Scoring that drops the chunks whose judgment is not usable.
ScoringDroppingUnusable(cs, js) ==
    LET usable == SelectSeq([k \in DOMAIN cs |-> k], LAMBDA k : ValidJudgment(js[k]))
    IN  [n \in DOMAIN usable |-> ScoredChunk(cs[usable[n]], js[usable[n]])]

Scoring(cs, js) == [k \in DOMAIN cs |-> ScoredChunk(cs[k], js[k])]

AnalysisUnused ==
    /\ utterances = <<>>
    /\ chunks = <<>>
    /\ judgments = <<>>
    /\ analysis = <<>>

\* An analysis request has arrived with its transcript.
AnalysisInit ==
    /\ utterances \in Transcripts
    /\ chunks = <<>>
    /\ judgments = <<>>
    /\ analysis = <<>>
    /\ pipelineStage = 0
    /\ pipelineStatus = "running"
    /\ attempts = 0
    /\ produced = <<>>

\* Stage Chunking: an empty transcript fails the pipeline at once.
RunChunking ==
    /\ pipelineStatus = "running"
    /\ pipelineStage = 0
    /\ IF utterances = <<>>
       THEN /\ pipelineStatus' = "failed"
            /\ UNCHANGED <<pipelineStage, chunks>>
       ELSE /\ chunks' = Chunking(utterances)
            /\ pipelineStage' = 1
            /\ UNCHANGED pipelineStatus
    /\ UNCHANGED <<attempts, produced, utterances, judgments, analysis>>
    /\ UNCHANGED <<cfVars, seVars, rvVars, rnVars, exVars, dbVars>>

\* Stage Scoring: the oracle call completed; every chunk gets its result.
RunScoring ==
    /\ pipelineStatus = "running"
    /\ pipelineStage = 1
    /\ \E js \in [DOMAIN chunks -> Judgments] :
          /\ judgments' = js
          /\ analysis' = Scoring(chunks, js)
    /\ pipelineStage' = 2
    /\ attempts' = 0
    /\ UNCHANGED <<pipelineStatus, produced, utterances, chunks>>
    /\ UNCHANGED <<cfVars, seVars, rvVars, rnVars, exVars, dbVars>>

\* The Scoring oracle call fails once more (bounded retry).
ScoringAttemptFails ==
    /\ pipelineStage = 1
    /\ OracleAttemptFails

\* --- Stage Refining (specification 4.1)
TopK == 2                \* ScoredChunks selected for refinement
Pad == 20                \* the refined interval may leave the chunk by 2 s
MinClipDuration == 150   \* platform band: at least 15 s
MaxClipDuration == 900   \* platform band: at most 90 s

\* Chunk k ranks before chunk l: higher viral_score, ties by earlier start.
RanksBefore(cs, an, k, l) ==
    \/ an[k].viral_score > an[l].viral_score
    \/ an[k].viral_score = an[l].viral_score /\ cs[k].start_time < cs[l].start_time

\* The chunk indices from the best ranked to the worst.
Ranking(cs, an) ==
    LET before(k) == Cardinality({l \in DOMAIN cs : RanksBefore(cs, an, l, k)})
    IN  [n \in 1..Len(cs) |-> CHOOSE k \in DOMAIN cs : before(k) = n - 1]

SelectTopK(cs, an) == SubSeq(Ranking(cs, an), 1, Min(TopK, Len(cs)))

\* The boundaries the oracle can propose for a chunk: time to cut from the
\* start (ds) and from the end (de); negative values extend the chunk.
Proposals == {[ds |-> 0, de |-> 0], [ds |-> -20, de |-> -20],
              [ds |-> -30, de |-> 100], [ds |-> 200, de |-> 200]}

\* A proposal is used when it stays within the pad and leaves a non-empty
\* interval; otherwise the chunk keeps its own boundaries.
Usable(chunk, p) ==
    /\ -Pad <= p.ds
    /\ -Pad <= p.de
    /\ chunk.start_time + p.ds < chunk.end_time - p.de

\* Trimming that takes the oracle's proposal as it comes.
TrimUnchecked(chunk, p) == <<chunk.start_time + p.ds, chunk.end_time - p.de>>

Trim(chunk, p) ==
    IF Usable(chunk, p)
    THEN <<chunk.start_time + p.ds, chunk.end_time - p.de>>
    ELSE <<chunk.start_time, chunk.end_time>>

RefinedClip(chunk, scored, p) ==
    LET t == Trim(chunk, p)
    IN  [clip_id |-> chunk.chunk_id, chunk_id |-> chunk.chunk_id,
         start |-> chunk.start_time, end |-> chunk.end_time,
         refined_start |-> t[1], refined_end |-> t[2],
         refined_duration |-> t[2] - t[1], viral_score |-> scored.viral_score,
         captions |-> <<>>, source_file |-> ""]

\* A band check that lets every clip through.
InBandAlways(clip) == TRUE

InBand(clip) ==
    /\ MinClipDuration <= clip.refined_duration
    /\ clip.refined_duration <= MaxClipDuration

\* The selected chunks refined in rank order; clips outside the band are
\* rejected.
Refining(cs, an, props) ==
    LET sel == SelectTopK(cs, an)
        refined == [n \in DOMAIN sel |-> RefinedClip(cs[sel[n]], an[sel[n]], props[n])]
    IN  SelectSeq(refined, InBand)

RunRefining ==
    /\ pipelineStatus = "running"
    /\ pipelineStage = RefiningStage
    /\ \E props \in [1..TopK -> Proposals] :
          produced' = Refining(chunks, analysis, props)
    /\ pipelineStage' = pipelineStage + 1
    /\ attempts' = 0
    /\ UNCHANGED <<pipelineStatus, utterances, chunks, judgments, analysis>>
    /\ UNCHANGED <<cfVars, seVars, rvVars, rnVars, exVars, dbVars>>

\* The stages after Refining complete one after the other.
PackagingStageCompletes ==
    /\ pipelineStage > RefiningStage
    /\ StageCompletes

\* The request whose transcript the pipeline is analysing: ContentFactory
\* after handleUpload has sent it (lines 37-64).
RequestSent ==
    /\ isAnalyzing = TRUE
    /\ currentStage = 0
    /\ clips = <<>>
    /\ pc = "fetching"
    /\ timers = 1
    /\ endpoint = "/analyze-podcast"
    /\ data = NoData
    /\ outcome = "none"
    /\ alert = ""
    /\ requests = 1

-----------------------------------------------------------------------------
\* Per-clip render pipeline (specification 4.2-4.5): Subject Tracker,
\* Trajectory Smoother, Composition Planner, Render Executor.  Lengths are in
\* units of 1/16 of the source height, times in sample intervals.

MaxSamples == 3          \* sampled frames of a clip

AspectW == 9             \* output aspect ratio 9:16
AspectH == 16
ConfidenceFloor == 50    \* detections below it are low-confidence
MaxVelocity == 2         \* configured maximum speed of the crop center
SampleInterval == 2      \* time between two sampled frames
MaxStep == MaxVelocity * SampleInterval

Point(x, y) == [x |-> x, y |-> y]

\* Source frames: wider than the output, of the output's ratio, narrower.
Sources == {[w |-> 32, h |-> 16], [w |-> 9, h |-> 16], [w |-> 6, h |-> 16]}

\* What the tracker can report for one sampled frame: a confident detection
\* (at or beyond the frame edges too), a detection below the confidence floor,
\* or no detection at all.
Detections ==
    {[detected |-> TRUE, center |-> Point(x, y), confidence |-> 90] :
        x \in {-2, 16, 34}, y \in {0, 18}}
      \cup {[detected |-> TRUE, center |-> Point(34, 18), confidence |-> 20],
            [detected |-> FALSE, center |-> Point(0, 0), confidence |-> 0]}

\* Raw trajectories: one entry per sampled frame, none dropped.
Trajectories ==
    UNION {{[i \in 1..n |-> [frame_index |-> i, detected |-> d[i].detected,
                             center |-> d[i].center, confidence |-> d[i].confidence]] :
              d \in [1..n -> Detections]} : n \in 1..MaxSamples}

HighConfidence(e) == e.detected /\ e.confidence >= ConfidenceFloor

FrameCenter(dims) == Point(dims.w \div 2, dims.h \div 2)

Abs(a) == IF a < 0 THEN -a ELSE a

\* Integer division rounding toward zero.
Quot(a, b) == IF a >= 0 THEN a \div b ELSE -((-a) \div b)

Dist2(p, q) == (q.x - p.x) * (q.x - p.x) + (q.y - p.y) * (q.y - p.y)

\* The least r with r * r >= n.
CeilSqrt(n) == CHOOSE r \in 0..n : r * r >= n /\ (r = 0 \/ (r - 1) * (r - 1) < n)

\* A filter that follows the raw center at once.
JumpTo(p, q, maxStep) == q

\* Bounded-rate filter: from p toward q, by at most maxStep.
MoveToward(p, q, maxStep) ==
    IF Dist2(p, q) <= maxStep * maxStep THEN q
    ELSE LET r == CeilSqrt(Dist2(p, q))
         IN  Point(p.x + Quot((q.x - p.x) * maxStep, r),
                   p.y + Quot((q.y - p.y) * maxStep, r))

\* The center the path is anchored to at sample i: the latest high-confidence
\* center up to i, else the first one after i.
Anchor(traj, i) ==
    LET before == {k \in 1..i : HighConfidence(traj[k])}
        after == {k \in (i + 1)..Len(traj) : HighConfidence(traj[k])}
    IN  IF before # {} THEN traj[CHOOSE k \in before : \A l \in before : l <= k].center
        ELSE traj[CHOOSE k \in after : \A l \in after : k <= l].center

RECURSIVE SmoothFrom(_, _, _)
SmoothFrom(traj, i, acc) ==
    IF i > Len(traj) THEN acc
    ELSE SmoothFrom(traj, i + 1,
                    Append(acc, IF i = 1 THEN Anchor(traj, 1)
                                ELSE MoveToward(acc[i - 1], Anchor(traj, i), MaxStep)))

\* Trajectory Smoother; without any high-confidence detection the path rests
\* at the frame center (TrackingError, static centered crop).
Smooth(traj, dims) ==
    IF \A i \in DOMAIN traj : ~HighConfidence(traj[i])
    THEN [i \in DOMAIN traj |-> FrameCenter(dims)]
    ELSE SmoothFrom(traj, 1, <<>>)

\* The largest rectangle of the output ratio that fits the source frame.
CropSize(dims) ==
    IF dims.w * AspectH >= dims.h * AspectW
    THEN [w |-> (dims.h * AspectW) \div AspectH, h |-> dims.h]
    ELSE [w |-> dims.w, h |-> (dims.w * AspectH) \div AspectW]

\* No clamping at all.
ClampNone(v, lo, hi) == v

Clamp(v, lo, hi) == IF v < lo THEN lo ELSE IF v > hi THEN hi ELSE v

\* The crop rectangle centered on c, moved back inside the frame at the edges.
CropRect(c, dims) ==
    LET size == CropSize(dims)
    IN  [x |-> Clamp(c.x - size.w \div 2, 0, dims.w - size.w),
         y |-> Clamp(c.y - size.h \div 2, 0, dims.h - size.h),
         width |-> size.w, height |-> size.h]

\* Contiguous frames with the same crop rectangle share one plan entry.
RECURSIVE PlanFrom(_, _, _, _)
PlanFrom(path, dims, i, acc) ==
    IF i > Len(path) THEN acc
    ELSE LET rect == CropRect(path[i], dims)
         IN  IF acc # <<>> /\ acc[Len(acc)].crop_rect = rect
             THEN PlanFrom(path, dims, i + 1,
                           [acc EXCEPT ![Len(acc)].frame_range = <<@[1], i>>])
             ELSE PlanFrom(path, dims, i + 1,
                           Append(acc, [frame_range |-> <<i, i>>, crop_rect |-> rect]))

CompositionPlanner(path, dims) == PlanFrom(path, dims, 1, <<>>)

RenderUnused ==
    /\ sourceDims = [w |-> 0, h |-> 0]
    /\ trajectory = <<>>
    /\ smoothed = <<>>
    /\ renderPlan = <<>>
    /\ renderStage = "idle"

\* The tracker has analysed the sampled frames of a clip.
RenderInit ==
    /\ sourceDims \in Sources
    /\ trajectory \in Trajectories
    /\ smoothed = <<>>
    /\ renderPlan = <<>>
    /\ renderStage = "tracked"

RunSmoother ==
    /\ renderStage = "tracked"
    /\ smoothed' = Smooth(trajectory, sourceDims)
    /\ renderStage' = "smoothed"
    /\ UNCHANGED <<sourceDims, trajectory, renderPlan>>
    /\ UNCHANGED <<cfVars, plVars, seVars, rvVars, anVars, exVars, dbVars>>

RunPlanner ==
    /\ renderStage = "smoothed"
    /\ renderPlan' = CompositionPlanner(smoothed, sourceDims)
    /\ renderStage' = "planned"
    /\ UNCHANGED <<sourceDims, trajectory, smoothed>>
    /\ UNCHANGED <<cfVars, plVars, seVars, rvVars, anVars, exVars, dbVars>>

\* Render Executor: the external engine renders the plan or fails.
RunExecutor ==
    /\ renderStage = "planned"
    /\ renderStage' \in {"rendered", "failed"}
    /\ UNCHANGED <<sourceDims, trajectory, smoothed, renderPlan>>
    /\ UNCHANGED <<cfVars, plVars, seVars, rvVars, anVars, exVars, dbVars>>

-----------------------------------------------------------------------------
\* ClipDetailView: src/unnamed/part_002, lines 1-254, opened by ContentFactory
\* on the selected clip.  A JSON document is a tree of values; a number is
\* kept as the characters JSON.stringify writes for it.

NoClip == Clip(0, 0)

\* The clips of the presented list: any clip of a response, with or without
\* captions, with the source file of a video upload or without one.
DetailClips ==
    {[Clip(i, sc) EXCEPT !.captions = CaptionList(n), !.source_file = f] :
        i \in 1..MaxClips, sc \in Scores, n \in 0..MaxCaptions,
        f \in {"", "uploads/video.mp4"}}

DigitChar(d) == <<"0", "1", "2", "3", "4", "5", "6", "7", "8", "9">>[d + 1]

RECURSIVE IntDigits(_)
IntDigits(n) == IF n < 10 THEN <<DigitChar(n)>> ELSE Append(IntDigits(n \div 10), DigitChar(n % 10))

\* The decimals of r / scale, without trailing zeros.
RECURSIVE FracDigits(_, _)
FracDigits(r, scale) ==
    IF r = 0 THEN <<>>
    ELSE <<DigitChar((r * 10) \div scale)>> \o FracDigits((r * 10) % scale, scale)

\* The text of the number v / scale.
NumberToString(v, scale) ==
    LET a == Abs(v)
    IN  (IF v < 0 THEN <<"-">> ELSE <<>>)
          \o IntDigits(a \div scale)
          \o (IF a % scale = 0 THEN <<>> ELSE <<".">> \o FracDigits(a % scale, scale))

RECURSIVE FracValue(_, _)
FracValue(t, scale) ==
    IF t = <<>> \/ scale < 10 THEN 0
    ELSE DigitVal(Head(t)) * (scale \div 10) + FracValue(Tail(t), scale \div 10)

\* The number a text stands for, in units of 1 / scale.
ParseNumber(t, scale) ==
    LET neg == t # <<>> /\ t[1] = "-"
        u == IF neg THEN Tail(t) ELSE t
        i1 == DigitsEnd(u, 1)
        int == DigitsValue(u, 1, i1)
        frac == IF i1 <= Len(u) /\ u[i1] = "." THEN SubSeq(u, i1 + 1, Len(u)) ELSE <<>>
        a == int * scale + FracValue(frac, scale)
    IN  IF neg THEN -a ELSE a

JNumber(v, scale) == [type |-> "number", text |-> NumberToString(v, scale), items |-> <<>>]
JString(str) == [type |-> "string", text |-> <<str>>, items |-> <<>>]
JArray(values) == [type |-> "array", text |-> <<>>, items |-> values]
JObject(members) == [type |-> "object", text |-> <<>>, items |-> members]
Member(key, value) == [key |-> key, value |-> value]

NoFile == [download |-> 0, document |-> JObject(<<>>)]

StringifyCaption(c) ==
    JObject(<<Member("text", JString(c.text)),
              Member("start_offset", JNumber(c.start_offset, 10)),
              Member("end_offset", JNumber(c.end_offset, 10)),
              Member("emphasis", JArray([i \in DOMAIN c.emphasis |-> JString(c.emphasis[i])]))>>)

\* A document with the timing and the score of the clip only.
StringifyTimingOnly(clip) ==
    JObject(<<Member("clip_id", JNumber(clip.clip_id, 1)),
              Member("chunk_id", JNumber(clip.chunk_id, 1)),
              Member("start", JNumber(clip.start, 10)),
              Member("end", JNumber(clip.end, 10)),
              Member("refined_start", JNumber(clip.refined_start, 10)),
              Member("refined_end", JNumber(clip.refined_end, 10)),
              Member("refined_duration", JNumber(clip.refined_duration, 10)),
              Member("viral_score", JNumber(clip.viral_score, 100))>>)

\* line 237: JSON.stringify(clip, null, 2); a property whose value is
\* undefined (source_file of a transcript analysis) is left out.
Stringify(clip) ==
    JObject(<<Member("clip_id", JNumber(clip.clip_id, 1)),
              Member("chunk_id", JNumber(clip.chunk_id, 1)),
              Member("start", JNumber(clip.start, 10)),
              Member("end", JNumber(clip.end, 10)),
              Member("refined_start", JNumber(clip.refined_start, 10)),
              Member("refined_end", JNumber(clip.refined_end, 10)),
              Member("refined_duration", JNumber(clip.refined_duration, 10)),
              Member("viral_score", JNumber(clip.viral_score, 100)),
              Member("captions",
                     JArray([i \in DOMAIN clip.captions |-> StringifyCaption(clip.captions[i])]))>>
            \o (IF clip.source_file = "" THEN <<>>
                ELSE <<Member("source_file", JString(clip.source_file))>>))

Has(doc, key) == \E i \in DOMAIN doc.items : doc.items[i].key = key

Get(doc, key) == doc.items[CHOOSE i \in DOMAIN doc.items : doc.items[i].key = key].value

ParseCaption(doc) ==
    [text |-> Get(doc, "text").text[1],
     start_offset |-> ParseNumber(Get(doc, "start_offset").text, 10),
     end_offset |-> ParseNumber(Get(doc, "end_offset").text, 10),
     emphasis |-> [i \in DOMAIN Get(doc, "emphasis").items |-> Get(doc, "emphasis").items[i].text[1]]]

\* JSON.parse of an exported document, read as a clip; a property the
\* document does not have reads as undefined ("" for source_file, no captions).
ParseClip(doc) ==
    [clip_id |-> ParseNumber(Get(doc, "clip_id").text, 1),
     chunk_id |-> ParseNumber(Get(doc, "chunk_id").text, 1),
     start |-> ParseNumber(Get(doc, "start").text, 10),
     end |-> ParseNumber(Get(doc, "end").text, 10),
     refined_start |-> ParseNumber(Get(doc, "refined_start").text, 10),
     refined_end |-> ParseNumber(Get(doc, "refined_end").text, 10),
     refined_duration |-> ParseNumber(Get(doc, "refined_duration").text, 10),
     viral_score |-> ParseNumber(Get(doc, "viral_score").text, 100),
     captions |-> IF Has(doc, "captions")
                  THEN [i \in DOMAIN Get(doc, "captions").items |->
                           ParseCaption(Get(doc, "captions").items[i])]
                  ELSE <<>>,
     source_file |-> IF Has(doc, "source_file") THEN Get(doc, "source_file").text[1] ELSE ""]

ExportUnused ==
    /\ selectedClip = NoClip
    /\ downloaded = NoFile

\* ContentFactory, line 10: no clip is selected after an analysis.
ExportInit ==
    /\ selectedClip = NoClip
    /\ downloaded = NoFile

\* ContentFactory, lines 238 and 307-311: a click on a clip of the list opens
\* the detail view on it.
SelectClip ==
    /\ selectedClip = NoClip
    /\ selectedClip' \in DetailClips
    /\ UNCHANGED downloaded
    /\ UNCHANGED <<cfVars, plVars, seVars, rvVars, anVars, rnVars, dbVars>>

\* lines 235-245: the Export button.
ExportClip ==
    /\ selectedClip # NoClip
    /\ downloaded' = [download |-> selectedClip.clip_id, document |-> Stringify(selectedClip)]
    /\ UNCHANGED selectedClip
    /\ UNCHANGED <<cfVars, plVars, seVars, rvVars, anVars, rnVars, dbVars>>

\* ContentFactory, line 310: onClose.
CloseDetail ==
    /\ selectedClip # NoClip
    /\ selectedClip' = NoClip
    /\ UNCHANGED downloaded
    /\ UNCHANGED <<cfVars, plVars, seVars, rvVars, anVars, rnVars, dbVars>>

-----------------------------------------------------------------------------
\* Dashboard: src/src/Dashboard.tsx.  Times are in seconds.

MaxMetaRequests == 2     \* get-video-meta requests in flight

DefaultRangeEnd == 600   \* useState([0, 600]), Math.min(data.duration, 600)
LocalFileDuration == 600 \* duration: 600 of the meta made up for a local file

Max(a, b) == IF a > b THEN a ELSE b

Urls == {"", "https://youtu.be/abc", "https://www.youtube.com/watch?v=abc",
         "https://vimeo.com/1"}

\* line 54: url.includes('youtube.com') || url.includes('youtu.be')
IsYoutubeUrl(u) == u \in {"https://youtu.be/abc", "https://www.youtube.com/watch?v=abc"}

\* Durations of the videos whose metadata the backend returns.
VideoDurations == {450, 1200}

\* Positions of a range slider with min 0 and max meta.duration.
SliderValues == {v \in {0, 1, 300, 449, 600, 900, 1200} : v <= meta}

\* Texts typed into the Start and End fields, as lists of characters.
TypedTimes == {<<>>, <<"a">>, <<"-", "5">>, <<"3", "0", "0">>, <<"5", ":", "0", "0">>,
               <<"1", "5", ":", "0", "0">>, <<"9", "9", "9", "9">>, <<"1", ":">>}

\* value.split(':')
RECURSIVE Split(_, _, _)
Split(s, i, cur) ==
    IF i > Len(s) THEN <<cur>>
    ELSE IF s[i] = ":" THEN <<cur>> \o Split(s, i + 1, <<>>)
    ELSE Split(s, i + 1, Append(cur, s[i]))

\* parseInt: leading spaces, an optional sign, then digits; NaN without digits.
ParseInt(s) ==
    LET b == SkipSpaces(s, 1)
        signed == b <= Len(s) /\ s[b] \in {"+", "-"}
        i0 == IF signed THEN b + 1 ELSE b
        i1 == DigitsEnd(s, i0)
    IN  IF i1 = i0 THEN NaN
        ELSE [nan |-> FALSE,
              val |-> (IF signed /\ s[b] = "-" THEN -1 ELSE 1) * DigitsValue(s, i0, i1)]

\* lines 85-91: MM:SS or S
TypedSeconds(value) ==
    LET parts == Split(value, 1, <<>>)
    IN  IF Len(parts) = 2
        THEN IF ParseInt(parts[1]).nan \/ ParseInt(parts[2]).nan THEN NaN
             ELSE [nan |-> FALSE, val |-> ParseInt(parts[1]).val * 60 + ParseInt(parts[2]).val]
        ELSE ParseInt(parts[1])

DashboardUnused ==
    /\ url = ""
    /\ meta = 0
    /\ loadingMeta = FALSE
    /\ range = <<0, 0>>
    /\ uploadMode = ""
    /\ selectedFile = FALSE
    /\ metaRequests = 0

\* lines 26-38: the initial state of the component.
DashboardInit ==
    /\ url = ""
    /\ meta = 0
    /\ loadingMeta = FALSE
    /\ range = <<0, DefaultRangeEnd>>
    /\ uploadMode = "youtube"
    /\ selectedFile = FALSE
    /\ metaRequests = 0

\* line 164: the link field, shown in YouTube mode.
SetUrl ==
    /\ uploadMode = "youtube"
    /\ url' \in Urls
    /\ UNCHANGED <<meta, loadingMeta, range, uploadMode, selectedFile, metaRequests>>
    /\ UNCHANGED <<cfVars, plVars, seVars, rvVars, anVars, rnVars, exVars>>

\* lines 128, 142: the tab switcher.
SetUploadMode ==
    /\ uploadMode' \in {"youtube", "file"}
    /\ meta' = 0
    /\ UNCHANGED <<url, loadingMeta, range, selectedFile, metaRequests>>
    /\ UNCHANGED <<cfVars, plVars, seVars, rvVars, anVars, rnVars, exVars>>

\* line 170: the Clear button, shown in YouTube mode when there is metadata.
ClearMeta ==
    /\ uploadMode = "youtube"
    /\ meta # 0
    /\ meta' = 0
    /\ UNCHANGED <<url, loadingMeta, range, uploadMode, selectedFile, metaRequests>>
    /\ UNCHANGED <<cfVars, plVars, seVars, rvVars, anVars, rnVars, exVars>>

\* lines 40-51: a local file is chosen (the input is shown in file mode).
HandleFileChange ==
    /\ uploadMode = "file"
    /\ selectedFile' = TRUE
    /\ meta' = LocalFileDuration
    /\ UNCHANGED <<url, loadingMeta, range, uploadMode, metaRequests>>
    /\ UNCHANGED <<cfVars, plVars, seVars, rvVars, anVars, rnVars, exVars>>

\* lines 53-62: fetchMeta up to the await of fetch; called on blur, on Enter
\* and by the Start button.
FetchMeta ==
    /\ uploadMode = "youtube"
    /\ IsYoutubeUrl(url)
    /\ metaRequests < MaxMetaRequests
    /\ loadingMeta' = TRUE
    /\ metaRequests' = metaRequests + 1
    /\ UNCHANGED <<url, meta, range, uploadMode, selectedFile>>
    /\ UNCHANGED <<cfVars, plVars, seVars, rvVars, anVars, rnVars, exVars>>

\* lines 63-72: the response of a request arrived with a title.
FetchMetaResolves ==
    /\ metaRequests > 0
    /\ \E d \in VideoDurations :
          /\ meta' = d
          /\ range' = <<0, Min(d, DefaultRangeEnd)>>
    /\ loadingMeta' = FALSE
    /\ metaRequests' = metaRequests - 1
    /\ UNCHANGED <<url, uploadMode, selectedFile>>
    /\ UNCHANGED <<cfVars, plVars, seVars, rvVars, anVars, rnVars, exVars>>

\* lines 63-72: the response has no title, or the request failed.
FetchMetaFails ==
    /\ metaRequests > 0
    /\ loadingMeta' = FALSE
    /\ metaRequests' = metaRequests - 1
    /\ UNCHANGED <<url, meta, range, uploadMode, selectedFile>>
    /\ UNCHANGED <<cfVars, plVars, seVars, rvVars, anVars, rnVars, exVars>>

\* lines 277-287: the start slider, shown when there is metadata.
StartSliderChange ==
    /\ meta # 0
    /\ \E v \in SliderValues : range' = <<Min(v, range[2] - 1), range[2]>>
    /\ UNCHANGED <<url, meta, loadingMeta, uploadMode, selectedFile, metaRequests>>
    /\ UNCHANGED <<cfVars, plVars, seVars, rvVars, anVars, rnVars, exVars>>

\* lines 288-298: the end slider.
EndSliderChange ==
    /\ meta # 0
    /\ \E v \in SliderValues : range' = <<range[1], Max(v, range[1] + 1)>>
    /\ UNCHANGED <<url, meta, loadingMeta, uploadMode, selectedFile, metaRequests>>
    /\ UNCHANGED <<cfVars, plVars, seVars, rvVars, anVars, rnVars, exVars>>

\* lines 100-107: the typed time replaces its end of the range unless it
\* would pass the other end.
NewRange(type, seconds) ==
    IF type = "start"
    THEN IF seconds < range[2] THEN <<seconds, range[2]>> ELSE range
    ELSE IF seconds > range[1] THEN <<range[1], seconds>> ELSE range

\* lines 83-109: a text typed into the Start or End field, shown when there
\* is metadata.
HandleTimeInput ==
    /\ meta # 0
    /\ \E type \in {"start", "end"}, value \in TypedTimes :
          LET parsed == TypedSeconds(value)
              seconds == Max(0, Min(parsed.val, meta))
          IN  IF parsed.nan THEN UNCHANGED range
              ELSE range' = NewRange(type, seconds)
    /\ UNCHANGED <<url, meta, loadingMeta, uploadMode, selectedFile, metaRequests>>
    /\ UNCHANGED <<cfVars, plVars, seVars, rvVars, anVars, rnVars, exVars>>

-----------------------------------------------------------------------------
Init == CFInit /\ PipelineIdle /\ EditorUnused /\ ReelsUnused /\ AnalysisUnused
        /\ RenderUnused /\ ExportUnused /\ DashboardUnused

Next ==
    \/ HandleUploadRejected
    \/ HandleUpload
    \/ StageInterval
    \/ FetchResolvesOk
    \/ FetchResolvesNotOk
    \/ FetchRejects
    \/ JsonResolves
    \/ JsonRejects
    \/ OracleAttemptFails
    \/ StageCompletes
    \/ PipelineFails

Spec == Init /\ [][Next]_vars

InitEditor == CFInit /\ PipelineIdle /\ EditorInit /\ ReelsUnused /\ AnalysisUnused
              /\ RenderUnused /\ ExportUnused /\ DashboardUnused

NextEditor ==
    \/ SetActiveCaptionIndex
    \/ HandleTextChange
    \/ HandleTimeChange
    \/ HandleSave
    \/ OnClose

SpecEditor == InitEditor /\ [][NextEditor]_vars

InitReels == CFInit /\ PipelineIdle /\ EditorUnused /\ ReelsInit /\ AnalysisUnused
             /\ RenderUnused /\ ExportUnused /\ DashboardUnused

NextReels ==
    \/ ClipChanges
    \/ RenderSucceeds
    \/ RenderFails
    \/ ReelsUnmount
    \/ HandleTimeUpdate

SpecReels == InitReels /\ [][NextReels]_vars

InitPipeline == RequestSent /\ EditorUnused /\ ReelsUnused /\ AnalysisInit
                /\ RenderUnused /\ ExportUnused /\ DashboardUnused

NextPipeline ==
    \/ RunChunking
    \/ ScoringAttemptFails
    \/ RunScoring
    \/ RunRefining
    \/ PackagingStageCompletes
    \/ FetchResolvesOk
    \/ JsonResolves

SpecPipeline == InitPipeline /\ [][NextPipeline]_vars

InitRender == CFInit /\ PipelineIdle /\ EditorUnused /\ ReelsUnused /\ AnalysisUnused
              /\ RenderInit /\ ExportUnused /\ DashboardUnused

NextRender ==
    \/ RunSmoother
    \/ RunPlanner
    \/ RunExecutor

SpecRender == InitRender /\ [][NextRender]_vars

InitExport == CFInit /\ PipelineIdle /\ EditorUnused /\ ReelsUnused /\ AnalysisUnused
              /\ RenderUnused /\ ExportInit /\ DashboardUnused

NextExport ==
    \/ SelectClip
    \/ ExportClip
    \/ CloseDetail

SpecExport == InitExport /\ [][NextExport]_vars

InitDashboard == CFInit /\ PipelineIdle /\ EditorUnused /\ ReelsUnused /\ AnalysisUnused
                 /\ RenderUnused /\ ExportUnused /\ DashboardInit

NextDashboard ==
    \/ SetUrl
    \/ ClearMeta
    \/ SetUploadMode
    \/ HandleFileChange
    \/ FetchMeta
    \/ FetchMetaResolves
    \/ FetchMetaFails
    \/ StartSliderChange
    \/ EndSliderChange
    \/ HandleTimeInput

SpecDashboard == InitDashboard /\ [][NextDashboard]_vars

-----------------------------------------------------------------------------
\* Properties of the analysis request (specification Spec).

Count(s, x) == Cardinality({i \in DOMAIN s : s[i] = x})

IsPermutation(s, t) ==
    /\ Len(s) = Len(t)
    /\ \A i \in DOMAIN s : Count(s, s[i]) = Count(t, s[i])

\* The clips of a response body, each carrying the body's source file.
Returned(d) ==
    IF d.has_selected_clips
    THEN [i \in 1..Len(d.selected_clips) |-> WithSource(d.selected_clips[i], d.source_file)]
    ELSE <<>>

\* C1: within one analysis request (isAnalyzing stays true) the current stage
\* only ever advances by exactly one: no stage is skipped, none is revisited,
\* and stage 6 (Done) is entered from stage 5 only.
C1_StagesAdvanceOneAtATime ==
    [][(isAnalyzing /\ isAnalyzing' /\ currentStage' # currentStage)
          => currentStage' = currentStage + 1]_vars

\* C2: an analysis that ended with an error and a non-empty clip set leaves
\* that clip set with the caller, together with the error message.
C2_PartialClipsSurvive ==
    (pc = "idle" /\ outcome = "error" /\ Returned(data) # <<>>)
        => (alert # "" /\ IsPermutation(clips, Returned(data)))

\* C3: after a successful analysis the presented list is a permutation of the
\* returned clips, ordered by viral_score from highest to lowest.
C3_ClipsSortedPermutation ==
    outcome = "success" =>
        /\ IsPermutation(clips, Returned(data))
        /\ \A i \in 1..(Len(clips) - 1) : clips[i].viral_score >= clips[i + 1].viral_score

C3_Witness ==
    /\ outcome = "success"
    /\ Len(clips) = 3
    /\ data.selected_clips[1].viral_score < data.selected_clips[2].viral_score
    /\ data.selected_clips[1].viral_score < data.selected_clips[3].viral_score
    /\ data.selected_clips[2].start > data.selected_clips[3].start

\* C7: while the pipeline is executing a request, the stage displayed is the
\* stage the pipeline is executing.
C7_DisplayedStageIsPipelineStage ==
    (isAnalyzing /\ pc = "fetching" /\ pipelineStatus = "running")
        => currentStage = pipelineStage

\* C8: an oracle call is attempted at most MaxAttempts times; when all attempts
\* fail the pipeline is Failed, and the clips produced before the failure
\* are with the caller once the analysis has ended.
C8_BoundedRetryKeepsResults ==
    /\ attempts <= MaxAttempts
    /\ (attempts = MaxAttempts => pipelineStatus = "failed")
    /\ (pc = "idle" /\ outcome \in {"error", "http_error"} /\ attempts = MaxAttempts
           /\ produced # <<>>)
          => IsPermutation(clips, [i \in 1..Len(produced) |-> WithSource(produced[i], data.source_file)])

-----------------------------------------------------------------------------
\* Properties of the subtitle editor (specification SpecEditor).

ValidCaptions(caps, duration) ==
    /\ \A i \in DOMAIN caps :
          /\ 0 <= caps[i].start_offset
          /\ caps[i].start_offset < caps[i].end_offset
          /\ caps[i].end_offset <= duration
    /\ \A i \in 1..(Len(caps) - 1) : caps[i].end_offset <= caps[i + 1].start_offset

\* C4: every clip handed to onSave has captions with
\* 0 <= start_offset < end_offset <= refined_duration, ordered and pairwise
\* non-overlapping.
C4_SavedCaptionsValid ==
    \A k \in DOMAIN onSaveArgs :
        ValidCaptions(onSaveArgs[k].captions, onSaveArgs[k].refined_duration)

\* C5: the clip handed to onSave equals the original clip in every field but
\* captions (timing, source, score, ids), and its captions are the edited ones.
C5_SaveChangesOnlyCaptions ==
    \A k \in DOMAIN onSaveArgs :
        /\ [onSaveArgs[k] EXCEPT !.captions = editorClip.captions] = editorClip
        /\ onSaveArgs[k].captions = captions

\* One caption's text was edited, nothing else, and the clip was saved.
C5_Witness ==
    /\ Len(onSaveArgs) = 1
    /\ Len(captions) = 2
    /\ onSaveArgs[1].captions = TextChanged(editorClip.captions, 2, "fixed")
    /\ onSaveArgs[1].captions # editorClip.captions

-----------------------------------------------------------------------------
\* Properties of the vertical-video viewer (specification SpecReels).

RendersSettled == \A k \in DOMAIN renders : renders[k] # "pending"

\* C6: once every render request has settled and the request for the latest
\* clip produced a video, the video shown is the one rendered from the latest
\* clip (the output of a superseded request is never shown).
C6_SettledVideoIsLatest ==
    (reelMounted /\ RendersSettled /\ renders[reelClip] = "ok") => videoUrl = reelClip

-----------------------------------------------------------------------------
\* Properties of Chunking and Scoring (specification SpecPipeline).

InChunk(u, c) == c.start_time <= u.start_time /\ u.end_time <= c.end_time

Overlap(c, d) == c.start_time < d.end_time /\ d.start_time < c.end_time

\* C9: Scoring yields exactly one ScoredChunk per chunk, in chunk order; a
\* chunk whose judgment is malformed or missing has viral_score 0 and
\* context_dependency TRUE, every other chunk carries its judgment unchanged.
C9_OneScoredChunkPerChunk ==
    pipelineStage >= 2 =>
        /\ Len(analysis) = Len(chunks)
        /\ \A k \in DOMAIN chunks :
              /\ analysis[k].chunk_id = chunks[k].chunk_id
              /\ (judgments[k].kind = "missing" \/ judgments[k].viral_score \notin 0..100) =>
                    (analysis[k].viral_score = 0 /\ analysis[k].context_dependency)
              /\ (judgments[k].kind = "ok" /\ judgments[k].viral_score \in 0..100) =>
                    /\ analysis[k].viral_score = judgments[k].viral_score
                    /\ analysis[k].context_dependency = judgments[k].context_dependency

\* Four chunks, the judgment of chunk 2 missing, the others usable.
C9_Witness ==
    /\ pipelineStage >= 2
    /\ Len(chunks) = 4
    /\ Len(analysis) = 4
    /\ judgments[2].kind = "missing"
    /\ \A k \in {1, 3, 4} : judgments[k].kind = "ok" /\ judgments[k].viral_score = 90

\* C10: the chunks of a non-empty transcript partition the utterances: every
\* utterance lies in exactly one chunk, the chunks follow one another in
\* transcript order without gap or overlap, from the first utterance to the last.
C10_ChunksPartitionUtterances ==
    (pipelineStage >= 1 /\ utterances # <<>>) =>
        /\ chunks # <<>>
        /\ \A i \in DOMAIN utterances :
              Cardinality({k \in DOMAIN chunks : InChunk(utterances[i], chunks[k])}) = 1
        /\ chunks[1].start_time = utterances[1].start_time
        /\ chunks[Len(chunks)].end_time = utterances[Len(utterances)].end_time
        /\ \A k \in 1..(Len(chunks) - 1) : chunks[k].end_time = chunks[k + 1].start_time
        /\ \A k \in DOMAIN chunks : chunks[k].start_time < chunks[k].end_time
        /\ \A k, l \in DOMAIN chunks : k # l => ~Overlap(chunks[k], chunks[l])

\* A transcript cut into several chunks, one of them of several utterances.
C10_Witness ==
    /\ pipelineStage >= 1
    /\ Len(utterances) = 4
    /\ Len(chunks) = 3
    /\ \E k \in DOMAIN chunks :
          Cardinality({i \in DOMAIN utterances : InChunk(utterances[i], chunks[k])}) >= 2

C11_ShortTranscript ==
    /\ pipelineStage >= 1
    /\ Len(utterances) = 2
    /\ Len(chunks) = 1
    /\ chunks[1].duration = 200

\* The chunk a clip was refined from.
ChunkOf(clip) == chunks[clip.chunk_id]

\* The clips that have left Refining, and those presented to the user.
RefinedClips == {produced[i] : i \in DOMAIN produced} \cup {clips[i] : i \in DOMAIN clips}

\* C12: every refined clip lies within its chunk extended by the pad on both
\* sides, start - pad <= refined_start < refined_end <= end + pad, and its
\* refined_duration is refined_end - refined_start and is positive.
C12_RefinedIntervalWithinPad ==
    \A c \in RefinedClips :
        /\ c.start = ChunkOf(c).start_time
        /\ c.end = ChunkOf(c).end_time
        /\ c.start - Pad <= c.refined_start
        /\ c.refined_start < c.refined_end
        /\ c.refined_end <= c.end + Pad
        /\ c.refined_duration = c.refined_end - c.refined_start
        /\ c.refined_duration > 0

\* Two clips presented, one extended to the edge of the pad on both sides, the
\* other cut by 20 s at both ends.
C12_Witness ==
    /\ outcome = "success"
    /\ Len(clips) = 2
    /\ \E i, j \in DOMAIN clips :
          /\ clips[i].refined_start = clips[i].start - Pad
          /\ clips[i].refined_end = clips[i].end + Pad
          /\ clips[j].refined_start = clips[j].start + 200
          /\ clips[j].refined_end = clips[j].end - 200

\* C13: every clip selected and presented has its refined_duration in the
\* platform band, 15 s to 90 s; a clip outside the band is absent from the
\* list, and no clip has its duration adjusted to fit.
C13_ClipsWithinPlatformBand ==
    /\ \A c \in RefinedClips :
          /\ MinClipDuration <= c.refined_duration
          /\ c.refined_duration <= MaxClipDuration
          /\ c.refined_duration = c.refined_end - c.refined_start
    /\ pipelineStage > RefiningStage =>
          \A n \in 1..Min(TopK, Len(chunks)) :
              LET k == SelectTopK(chunks, analysis)[n]
              IN  (\A p \in Proposals : ~InBand(RefinedClip(chunks[k], analysis[k], p)))
                      => \A c \in RefinedClips : c.chunk_id # k

\* Two chunks were selected, the 10 s one was rejected, the other is presented.
C13_Witness ==
    /\ outcome = "success"
    /\ Len(chunks) = 2
    /\ chunks[2].duration = 100
    /\ Len(clips) = 1
    /\ clips[1].chunk_id = 1

-----------------------------------------------------------------------------
\* Ranking of the presented clips (specification Spec).

\* C16: of two presented clips with equal viral_score, the one that starts
\* earlier is ranked first.
C16_TiesByEarlierStart ==
    outcome = "success" =>
        \A i, j \in DOMAIN clips :
            (i < j /\ clips[i].viral_score = clips[j].viral_score)
                => clips[i].start < clips[j].start

-----------------------------------------------------------------------------
\* Captions during playback (specification SpecReels).

\* The captions whose interval contains the playback time.
ActiveCaptions ==
    {i \in DOMAIN reelCaptions :
        reelCaptions[i].start_offset <= currentTime /\ currentTime <= reelCaptions[i].end_offset}

\* C17: at every playback time at most one caption is active, the caption
\* displayed is that one, and no caption is displayed when none is active;
\* also at a time where one caption ends and the next begins.
C17_AtMostOneActiveCaption ==
    reelMounted =>
        /\ Cardinality(ActiveCaptions) <= 1
        /\ ActiveCaptions = {} => activeCaption = 0
        /\ \A i \in ActiveCaptions : ActiveCaptions = {i} => activeCaption = i

-----------------------------------------------------------------------------
\* Properties of the render pipeline (specification SpecRender).

\* A rectangle lies inside the source frame.
InsideFrame(r, dims) ==
    /\ 0 <= r.x
    /\ r.x + r.width <= dims.w
    /\ 0 <= r.y
    /\ r.y + r.height <= dims.h

NoSubject == \A i \in DOMAIN trajectory : ~HighConfidence(trajectory[i])

\* C18: every crop rectangle of a RenderPlan lies inside the source frame,
\* wherever the smoothed center is; the plan covers the sampled frames in
\* order; without a subject in any sampled frame it is one centered crop
\* rectangle for the whole clip.
C18_CropInsideFrame ==
    renderStage \in {"planned", "rendered", "failed"} =>
        /\ renderPlan # <<>>
        /\ \A n \in DOMAIN renderPlan :
              /\ InsideFrame(renderPlan[n].crop_rect, sourceDims)
              /\ renderPlan[n].crop_rect.width > 0
              /\ renderPlan[n].crop_rect.height > 0
              /\ \A i \in renderPlan[n].frame_range[1]..renderPlan[n].frame_range[2] :
                    renderPlan[n].crop_rect = CropRect(smoothed[i], sourceDims)
        /\ renderPlan[1].frame_range[1] = 1
        /\ renderPlan[Len(renderPlan)].frame_range[2] = Len(trajectory)
        /\ \A n \in 1..(Len(renderPlan) - 1) :
              renderPlan[n + 1].frame_range[1] = renderPlan[n].frame_range[2] + 1
        /\ NoSubject =>
              /\ Len(renderPlan) = 1
              /\ renderPlan[1].frame_range = <<1, Len(trajectory)>>
              /\ 2 * renderPlan[1].crop_rect.x + renderPlan[1].crop_rect.width
                    \in {sourceDims.w - 1, sourceDims.w, sourceDims.w + 1}
              /\ 2 * renderPlan[1].crop_rect.y + renderPlan[1].crop_rect.height
                    \in {sourceDims.h - 1, sourceDims.h, sourceDims.h + 1}

\* A wide source whose subject is beyond the right edge and then beyond the
\* left edge: the crop rectangle rests against the right edge, then moves.
C18_Witness ==
    /\ renderStage = "planned"
    /\ sourceDims.w = 32
    /\ Len(trajectory) = 3
    /\ smoothed[1].x = 34
    /\ trajectory[3].center.x = -2 /\ HighConfidence(trajectory[3])
    /\ renderPlan[1].crop_rect.x + renderPlan[1].crop_rect.width = sourceDims.w
    /\ Len(renderPlan) >= 2

\* No subject in any of three sampled frames, one of them with a detection
\* below the confidence floor.
C18_NoSubjectWitness ==
    /\ renderStage = "planned"
    /\ Len(trajectory) = 3
    /\ NoSubject
    /\ \E i \in DOMAIN trajectory : trajectory[i].detected

\* C19: between two consecutive samples of the smoothed path the center moves
\* by at most the maximum velocity times the sample interval, also across
\* low-confidence and missing frames; the path has one sample per sampled frame.
C19_BoundedVelocity ==
    renderStage # "tracked" =>
        /\ Len(smoothed) = Len(trajectory)
        /\ \A i \in 1..(Len(smoothed) - 1) :
              Dist2(smoothed[i], smoothed[i + 1])
                  <= (MaxVelocity * SampleInterval) * (MaxVelocity * SampleInterval)

\* The subject is seen at one side, lost for a frame, and found again at the
\* far side: the path moves toward it at the maximum velocity.
C19_Witness ==
    /\ renderStage = "smoothed"
    /\ Len(trajectory) = 3
    /\ HighConfidence(trajectory[1]) /\ trajectory[1].center = Point(-2, 0)
    /\ ~HighConfidence(trajectory[2])
    /\ HighConfidence(trajectory[3]) /\ trajectory[3].center = Point(34, 18)
    /\ smoothed[2] = smoothed[1]
    /\ smoothed[3] # smoothed[2]
    /\ smoothed[3] # trajectory[3].center

-----------------------------------------------------------------------------
\* Properties of the export (specification SpecExport).

-----------------------------------------------------------------------------
\* Properties of the upload (specification Spec).

\* The extension of a file name: what follows its last dot, lower case; a name
\* without a dot has none.
Extension(name) == IF Len(name) >= 2 THEN ToLowerCase(name[Len(name)]) ELSE ""

\* C21: a file is analysed if and only if its extension, compared without
\* regard to case, is one of txt, srt, vtt, mp4, mov, avi, mkv; an accepted
\* upload sends one request, to the transcript endpoint for txt, srt, vtt and
\* to the video endpoint for mp4, mov, avi, mkv.
C21_AnalysedIffExtensionAccepted ==
    [][\A name \in FileNames :
          /\ (HandleUpload /\ SendFile(name)) =>
                /\ Extension(name) \in {"txt", "srt", "vtt", "mp4", "mov", "avi", "mkv"}
                /\ Extension(name) \in {"txt", "srt", "vtt"} => endpoint' = "/analyze-podcast"
                /\ Extension(name) \in {"mp4", "mov", "avi", "mkv"} => endpoint' = "/upload-video"
                /\ pc = "idle" /\ pc' = "fetching"
          /\ (HandleUploadRejected /\ RejectFile(name)) =>
                /\ Extension(name) \notin {"txt", "srt", "vtt", "mp4", "mov", "avi", "mkv"}
                /\ pc' = pc /\ endpoint' = endpoint]_vars

\* C22: once an analysis has ended, by success, by an error response or by a
\* network failure, no stage timer is running, isAnalyzing is false and
\* currentStage is 0, and stays so until the next upload.
C22_TimerStoppedAfterAnalysis ==
    pc = "idle" => (timers = 0 /\ ~isAnalyzing /\ currentStage = 0)

\* C23: at most one analysis request is in flight: an upload starts only
\* while isAnalyzing is false, a request is in flight exactly while
\* isAnalyzing is true, and clips are stored only by the one request in flight.
C23_OneAnalysisInFlight ==
    /\ requests \in {0, 1}
    /\ isAnalyzing <=> requests = 1
    /\ pc # "idle" <=> requests = 1

\* A second analysis is in flight after a first one ended by a network failure.
C23_Witness ==
    /\ requests = 1
    /\ isAnalyzing
    /\ pc = "fetching"
    /\ timers = 2

\* C24: currentStage is always an integer in 0..6; a tick of the stage timer
\* never leaves it above 5, and it becomes 6 only when the response of the
\* request has arrived.
C24_CurrentStageInRange ==
    /\ [](currentStage \in 0..6)
    /\ [][/\ StageInterval => currentStage' <= 5
          /\ (currentStage' = 6 /\ currentStage # 6) => (pc = "fetching" /\ pc' = "parsing")]_vars

\* The response has arrived and the stage is 6, while a timer left over from
\* an earlier analysis is still live.
C24_Witness ==
    /\ currentStage = 6
    /\ pc = "parsing"
    /\ timers = 1

-----------------------------------------------------------------------------
\* Properties of the render requests of the viewer (specification SpecReels).

\* C25: while the render request for the current clip is outstanding the
\* loading flag is true; it is never false while the latest render is still
\* in flight, also when an earlier request settles in the meantime.
C25_LoadingWhileLatestPending ==
    (reelMounted /\ renders[reelClip] = "pending") => loading

\* The object URLs created so far: one per render that delivered a video.
CreatedUrls == {k \in DOMAIN renders : renders[k] = "ok"}

\* C26: every object URL created for a rendered video is revoked once a new
\* render has superseded it or the viewer is closed, and no URL is revoked
\* while it is the displayed video source.
C26_ObjectUrlsRevoked ==
    /\ \A k \in CreatedUrls : (~reelMounted \/ k # videoUrl) => k \in revoked
    /\ (reelMounted /\ videoUrl # 0) => videoUrl \notin revoked

-----------------------------------------------------------------------------
\* Properties of the dashboard (specification SpecDashboard).

\* C27: whenever video metadata is loaded, the selected range satisfies
\* 0 <= start < end <= meta.duration, after any sequence of slider moves,
\* typed times, metadata fetches, mode switches and file selections.
C27_RangeWithinVideo ==
    meta # 0 => (0 <= range[1] /\ range[1] < range[2] /\ range[2] <= meta)

-----------------------------------------------------------------------------
\* Properties of the subtitle editor's edits and of closing it
\* (specification SpecEditor).

CaptionFields == {"text", "start_offset", "end_offset", "emphasis"}

\* new differs from old at most in the given field of the caption at index.
OnlyFieldChanged(old, new, index, field) ==
    /\ Len(new) = Len(old)
    /\ \A j \in DOMAIN old : j # index => new[j] = old[j]
    /\ \A f \in CaptionFields \ {field} : new[index][f] = old[index][f]

\* The step is the edit addressed to the given field of the caption at index.
Addressed(index, field) ==
    /\ UNCHANGED <<editorClip, activeCaptionIndex, editorOpen, onSaveArgs>>
    /\ IF field = "text"
       THEN \E newText \in TextInputs :
               /\ captions'[index].text = newText
               /\ captions' = TextChanged(captions, index, newText)
       ELSE \E value \in TimeInputs :
               /\ captions'[index][field] = ParseFloat(value).val
               /\ ~ParseFloat(value).nan
               /\ captions' = TimeChanged(captions, index, field, value)

\* C28: every step that changes the captions is a text edit at some index i
\* changing only caption i's text, or a time edit with a numeric entry
\* changing only the named offset of caption i; a non-numeric time entry
\* changes nothing; the number and order of captions and every other
\* caption's fields are unchanged by any edit.
C28_EditChangesOneField ==
    [][captions' # captions =>
          \E index \in DOMAIN captions :
              /\ captions'[index] # captions[index]
              /\ \E field \in {"text", "start_offset", "end_offset"} :
                     /\ captions'[index][field] # captions[index][field]
                     /\ OnlyFieldChanged(captions, captions', index, field)
                     /\ Addressed(index, field)]_vars

\* The text of the first caption and the end of the second were edited; the
\* rest is as delivered.
C28_Witness ==
    /\ editorOpen
    /\ Len(captions) = 2
    /\ captions[1] = [editorClip.captions[1] EXCEPT !.text = "fixed"]
    /\ captions[2] = [editorClip.captions[2] EXCEPT !.end_offset = 310]
    /\ captions[2] # editorClip.captions[2]

\* C29: closing the editor with Cancel or the close button never invokes
\* onSave and leaves the clip's captions as they were; Save invokes onSave
\* exactly once, with the edited captions, and then closes the editor; onSave
\* is invoked by nothing else.
C29_EditsReachClipOnlyThroughSave ==
    /\ [](/\ Len(onSaveArgs) <= 1
          /\ editorOpen => onSaveArgs = <<>>)
    /\ [][/\ OnClose => /\ onSaveArgs' = onSaveArgs
                        /\ editorClip' = editorClip
                        /\ ~editorOpen'
          /\ HandleSave => /\ Len(onSaveArgs') = Len(onSaveArgs) + 1
                           /\ onSaveArgs'[Len(onSaveArgs')].captions = captions
                           /\ ~editorOpen'
          /\ onSaveArgs' # onSaveArgs => HandleSave
          /\ editorClip' = editorClip]_vars

\* The captions were edited and the editor was closed without saving.
C29_Witness ==
    /\ ~editorOpen
    /\ onSaveArgs = <<>>
    /\ Len(captions) = 2
    /\ captions # editorClip.captions

=============================================================================
